---- MODULE Spec2Model ----
(***************************************************************************)
(* Model of expansion_tank_sizer.py: the two sizing formulas, the parsing  *)
(* of the form fields, and the Calculate handler that renders the results. *)
(*                                                                         *)
(* Python values are tagged records [tag, n, d, s]:                        *)
(*   "float" / "int"  the number n/d in lowest terms (d > 0);              *)
(*   "str"            the string s;                                        *)
(*   "raise"          an exception whose class name is s;                  *)
(*   "None"           no value.                                            *)
(* Floating-point numbers are modelled by exact rationals: rounding of     *)
(* IEEE doubles is not modelled.  Texts (widget contents, formatted        *)
(* numbers) are sequences of one-character strings.                        *)
(***************************************************************************)
EXTENDS Integers, Sequences, FiniteSets, TLC

VARIABLES form, results_text, invocation, call

vars == <<form, results_text, invocation, call>>

(***************************************************************************)
(* Bounds of the model.                                                    *)
(***************************************************************************)
\* Longest text typed into the system-volume entry.
MaxTextLen == 2

(***************************************************************************)
(* Python values and arithmetic.                                           *)
(***************************************************************************)
Abs(i) == IF i < 0 THEN -i ELSE i

RECURSIVE GCD(_, _)
GCD(a, b) == IF b = 0 THEN a ELSE GCD(b, a % b)

Val(tag, n, d) ==
    LET g == GCD(Abs(n), d)
    IN  [tag |-> tag, n |-> n \div g, d |-> d \div g, s |-> ""]

FloatVal(n, d) == Val("float", n, d)

IntVal(i) == [tag |-> "int", n |-> i, d |-> 1, s |-> ""]

StrVal(msg) == [tag |-> "str", n |-> 0, d |-> 1, s |-> msg]

Raise(cls) == [tag |-> "raise", n |-> 0, d |-> 1, s |-> cls]

None == [tag |-> "None", n |-> 0, d |-> 1, s |-> ""]

IsNumber(v) == v.tag \in {"int", "float"}

\* isinstance(v, str)
IsStr(v) == v.tag = "str"

\* isinstance(v, float)
IsFloat(v) == v.tag = "float"

IsRaise(v) == v.tag = "raise"

\* An arithmetic operand that is not a number: an exception already raised
\* propagates, a string operand makes the operator raise TypeError.
BadOperand(a, b) ==
    IF IsRaise(a) THEN a
    ELSE IF IsRaise(b) THEN b
    ELSE Raise("TypeError")

ResultTag(a, b) == IF a.tag = "int" /\ b.tag = "int" THEN "int" ELSE "float"

\* a * b
Mul(a, b) ==
    IF ~(IsNumber(a) /\ IsNumber(b)) THEN BadOperand(a, b)
    ELSE LET g1 == GCD(Abs(a.n), b.d)
             g2 == GCD(Abs(b.n), a.d)
         IN  Val(ResultTag(a, b), (a.n \div g1) * (b.n \div g2),
                                  (a.d \div g2) * (b.d \div g1))

\* a + b
Add(a, b) ==
    IF ~(IsNumber(a) /\ IsNumber(b)) THEN BadOperand(a, b)
    ELSE LET g == GCD(a.d, b.d)
         IN  Val(ResultTag(a, b), a.n * (b.d \div g) + b.n * (a.d \div g),
                                  a.d * (b.d \div g))

\* a - b
Sub(a, b) ==
    IF ~(IsNumber(a) /\ IsNumber(b)) THEN BadOperand(a, b)
    ELSE Add(a, [b EXCEPT !.n = -b.n])

\* a / b (true division: the result is a float, a zero divisor raises)
Div(a, b) ==
    IF ~(IsNumber(a) /\ IsNumber(b)) THEN BadOperand(a, b)
    ELSE IF b.n = 0 THEN Raise("ZeroDivisionError")
    ELSE LET inv == [tag |-> b.tag,
                     n |-> IF b.n < 0 THEN -b.d ELSE b.d,
                     d |-> Abs(b.n), s |-> ""]
             p == Mul(a, inv)
         IN  [p EXCEPT !.tag = "float"]

\* a/b < c/d for b, d > 0, by comparing the continued-fraction expansions.
RECURSIVE FracLess(_, _, _, _)
FracLess(a, b, c, d) ==
    LET q1 == a \div b
        q2 == c \div d
        r1 == a % b
        r2 == c % d
    IN  IF q1 # q2 THEN q1 < q2
        ELSE IF r2 = 0 THEN FALSE
        ELSE IF r1 = 0 THEN TRUE
        ELSE FracLess(d, r2, b, r1)

Less(a, b) == FracLess(a.n, a.d, b.n, b.d)

LessEq(a, b) == ~Less(b, a)

Sign(v) == IF v.n > 0 THEN 1 ELSE IF v.n < 0 THEN -1 ELSE 0

(***************************************************************************)
(* Texts: str(), int(), float() and the ".2f" format.                      *)
(***************************************************************************)
DigitChars == <<"0", "1", "2", "3", "4", "5", "6", "7", "8", "9">>

IsDigit(c) == \E i \in 1..10 : DigitChars[i] = c

DigitValue(c) == (CHOOSE i \in 1..10 : DigitChars[i] = c) - 1

\* str(i) for i >= 0
RECURSIVE Digits(_)
Digits(i) ==
    IF i < 10 THEN <<DigitChars[i + 1]>>
    ELSE Append(Digits(i \div 10), DigitChars[(i % 10) + 1])

\* str(i), the text a combobox puts in its variable for the option i
ToText(i) == IF i < 0 THEN <<"-">> \o Digits(-i) ELSE Digits(i)

RECURSIVE DigitsValue(_)
DigitsValue(t) ==
    IF t = <<>> THEN 0
    ELSE 10 * DigitsValue(SubSeq(t, 1, Len(t) - 1)) + DigitValue(t[Len(t)])

RECURSIVE Pow10(_)
Pow10(k) == IF k = 0 THEN 1 ELSE 10 * Pow10(k - 1)

AllDigits(t) == \A i \in 1..Len(t) : IsDigit(t[i])

HasSign(t) == t # <<>> /\ t[1] \in {"-", "+"}

Unsigned(t) == IF HasSign(t) THEN Tail(t) ELSE t

Signed(t, i) == IF HasSign(t) /\ t[1] = "-" THEN -i ELSE i

\* int(text): an optional sign and at least one digit, else ValueError
ParseInt(t) ==
    LET u == Unsigned(t)
    IN  IF u # <<>> /\ AllDigits(u) THEN IntVal(Signed(t, DigitsValue(u)))
        ELSE Raise("ValueError")

\* float(text): an optional sign, digits with at most one decimal point and
\* at least one digit, else ValueError
ParseFloat(t) ==
    LET u == Unsigned(t)
        dots == {i \in 1..Len(u) : u[i] = "."}
    IN  IF u # <<>> /\ AllDigits(u)
            THEN FloatVal(Signed(t, DigitsValue(u)), 1)
        ELSE IF Cardinality(dots) = 1
            THEN LET p == CHOOSE i \in dots : TRUE
                     whole == SubSeq(u, 1, p - 1)
                     frac == SubSeq(u, p + 1, Len(u))
                 IN  IF AllDigits(whole) /\ AllDigits(frac)
                        /\ Len(whole) + Len(frac) > 0
                     THEN FloatVal(Signed(t, DigitsValue(whole) * Pow10(Len(frac))
                                          + DigitsValue(frac)),
                                Pow10(Len(frac)))
                     ELSE Raise("ValueError")
        ELSE Raise("ValueError")

\* |v| in hundredths, rounded to the nearest (ties to even)
Hundredths(v) ==
    LET a == Abs(v.n)
        q == a \div v.d
        r == (a % v.d) * 100
        f == r \div v.d
        rem == r % v.d
        down == q * 100 + f
    IN  IF 2 * rem > v.d \/ (2 * rem = v.d /\ down % 2 = 1)
        THEN down + 1 ELSE down

\* f"{v:.2f}"
Format2f(v) ==
    LET h == Hundredths(v)
        c == h % 100
    IN  (IF v.n < 0 THEN <<"-">> ELSE <<>>)
        \o Digits(h \div 100)
        \o <<".", DigitChars[(c \div 10) + 1], DigitChars[(c % 10) + 1]>>

(***************************************************************************)
(* Program constants.                                                      *)
(***************************************************************************)
\* ATM_PRESS = 14.7
ATM_PRESS == FloatVal(147, 10)

shared_pressure_options == {5, 10, 12, 15, 20, 30, 40, 50, 60, 70, 80}

max_pressure_options ==
    {27, 30, 35, 40, 45, 50, 55, 60, 65, 70, 75, 80, 90, 100, 110}

\* range(160, 281, 10)
avg_temp_options == {160 + 10 * k : k \in 0..12}

init_temp_options == {40, 50, 60, 70, 80, 90, 100, 110, 120}

max_temp_options ==
    {120, 130, 140, 150, 160, 170, 180, 190, 200, 210, 220, 230, 240}

(***************************************************************************)
(* The lookup collaborators (module expansion_data).  Only their contract  *)
(* is known: each returns a number, or a string when an argument is out of *)
(* the range of its table.  The operators give the set of values a call    *)
(* may return.                                                             *)
(***************************************************************************)
get_net_expansion(initial_temp, max_temp) ==
    {StrVal("Temperature out of range"), FloatVal(461, 10000)}

get_acceptance_factor(min_pressure, max_pressure) ==
    {StrVal("Pressure out of range"), FloatVal(481, 1000)}

\* What each collaborator returns if it is called during one invocation.
Lookups(init_temp, max_temp, min_tank_psig, max_tank_psig) ==
    [net_expansion : get_net_expansion(init_temp.n, max_temp.n),
     acceptance_factor : get_acceptance_factor(min_tank_psig.n, max_tank_psig.n)]

(***************************************************************************)
(* The two sizing formulas.                                                *)
(***************************************************************************)
\* Variant: the minimum pressure is left in psig (ATM_PRESS not added).
ASHRAE_gauge(avg_operating_temp, sys_vol, min_tank_psig, max_tank_psig) ==
    Div(Mul(Sub(Mul(FloatVal(41, 100000), avg_operating_temp),
                FloatVal(466, 10000)),
            sys_vol),
        Sub(IntVal(1), Div(min_tank_psig, Add(max_tank_psig, ATM_PRESS))))

\* Variant: the two pressures of the ratio exchanged.
ASHRAE_swapped(avg_operating_temp, sys_vol, min_tank_psig, max_tank_psig) ==
    Div(Mul(Sub(Mul(FloatVal(41, 100000), avg_operating_temp),
                FloatVal(466, 10000)),
            sys_vol),
        Sub(IntVal(1), Div(Add(max_tank_psig, ATM_PRESS),
                           Add(min_tank_psig, ATM_PRESS))))

\* Variant: the magnitude of the pressure term, abs(1 - ratio).
ASHRAE_magnitude(avg_operating_temp, sys_vol, min_tank_psig, max_tank_psig) ==
    LET term == Sub(IntVal(1), Div(Add(min_tank_psig, ATM_PRESS),
                                   Add(max_tank_psig, ATM_PRESS)))
    IN  Div(Mul(Sub(Mul(FloatVal(41, 100000), avg_operating_temp),
                    FloatVal(466, 10000)),
                sys_vol),
            IF IsNumber(term) THEN [term EXCEPT !.n = Abs(term.n)] ELSE term)

ASHRAE_sizing_method(avg_operating_temp, sys_vol, min_tank_psig, max_tank_psig) ==
    Div(Mul(Sub(Mul(FloatVal(41, 100000), avg_operating_temp),
                FloatVal(466, 10000)),
            sys_vol),
        Sub(IntVal(1), Div(Add(min_tank_psig, ATM_PRESS),
                           Add(max_tank_psig, ATM_PRESS))))

\* Variant: the result of the pressure lookup is used without the isinstance
\* test.
critical_unchecked(sys_vol, init_temp, max_temp, min_tank_psig, max_tank_psig, lookups) ==
    LET net_exp_factor == lookups.net_expansion
        accept_factor == lookups.acceptance_factor
    IN  IF IsStr(net_exp_factor)
        THEN [ret |-> net_exp_factor, calls |-> <<"get_net_expansion">>]
        ELSE [ret |-> Div(Mul(sys_vol, net_exp_factor), accept_factor),
              calls |-> <<"get_net_expansion", "get_acceptance_factor">>]

\* Variant: both lookups are made first and the pressure result is tested
\* before the temperature result.
critical_pressure_first(sys_vol, init_temp, max_temp, min_tank_psig, max_tank_psig, lookups) ==
    LET net_exp_factor == lookups.net_expansion
        accept_factor == lookups.acceptance_factor
        made == <<"get_net_expansion", "get_acceptance_factor">>
    IN  IF IsStr(accept_factor) THEN [ret |-> accept_factor, calls |-> made]
        ELSE IF IsStr(net_exp_factor) THEN [ret |-> net_exp_factor, calls |-> made]
        ELSE [ret |-> Div(Mul(sys_vol, net_exp_factor), accept_factor),
              calls |-> made]

\* The value returned (or the exception raised) and the collaborators called,
\* in order.
critical_sizing_method(sys_vol, init_temp, max_temp, min_tank_psig, max_tank_psig, lookups) ==
    LET net_exp_factor == lookups.net_expansion
        accept_factor == lookups.acceptance_factor
    IN  IF IsStr(net_exp_factor)
        THEN [ret |-> net_exp_factor, calls |-> <<"get_net_expansion">>]
        ELSE IF IsStr(accept_factor)
        THEN [ret |-> accept_factor,
              calls |-> <<"get_net_expansion", "get_acceptance_factor">>]
        ELSE [ret |-> Div(Mul(sys_vol, net_exp_factor), accept_factor),
              calls |-> <<"get_net_expansion", "get_acceptance_factor">>]

(***************************************************************************)
(* The Calculate handler.                                                  *)
(***************************************************************************)
Line(label, value, suffix) == [label |-> label, value |-> value, suffix |-> suffix]

AshraeLabel == "ASHRAE Method Min Tank Volume: "

CriticalLabel == "Critical Method Min Tank Volume: "

ErrorLabel == "Critical Method Error: "

\* The argument of results_text.set: the two adjacent f-strings are one
\* literal, so the conditional chooses between both lines and the error line.
ResultsText(ashrae_volume, critical_volume) ==
    IF IsFloat(critical_volume)
    THEN <<Line(AshraeLabel, Format2f(ashrae_volume), " gallons"),
           Line(CriticalLabel, Format2f(critical_volume), " gallons")>>
    ELSE <<Line(ErrorLabel, <<critical_volume.s>>, "")>>

Invocation(outcome, calls, ashrae_volume, critical_volume) ==
    [outcome |-> outcome, calls |-> calls,
     ashrae_volume |-> ashrae_volume, critical_volume |-> critical_volume]

NoInvocation == Invocation("none", <<>>, None, None)

\* The try block: the six widget values converted in source order.
ReadFields(f) ==
    [sys_vol |-> ParseFloat(f.shared_sys_vol_entry),
     min_tank_psig |-> ParseInt(f.shared_min_pressure_var),
     max_tank_psig |-> ParseInt(f.shared_max_pressure_var),
     avg_operating_temp |-> ParseInt(f.ashrae_avg_temp_var),
     init_temp |-> ParseInt(f.critical_init_temp_var),
     max_temp |-> ParseInt(f.critical_max_temp_var)]

\* Variant: only the shared parameters are converted inside the try block.
ValueErrorRaised_shared_only(p) ==
    \E k \in {"sys_vol", "min_tank_psig", "max_tank_psig"} : IsRaise(p[k])

\* A conversion of the try block raised ValueError.
ValueErrorRaised(p) ==
    \E k \in {"sys_vol", "min_tank_psig", "max_tank_psig",
              "avg_operating_temp", "init_temp", "max_temp"} : IsRaise(p[k])

\* Variant: the except clause also clears the label.
OnValueError_clearing(shown) ==
    [results_text |-> <<>>,
     invocation |-> Invocation("showerror", <<>>, None, None)]

\* The except clause: the message box, then return.
OnValueError(shown) ==
    [results_text |-> shown,
     invocation |-> Invocation("showerror", <<>>, None, None)]

\* The handler after the try block, on the parsed values p.
RunMethods(p, shown, lookups) ==
    LET ashrae_volume ==
            ASHRAE_sizing_method(p.avg_operating_temp, p.sys_vol,
                                 p.min_tank_psig, p.max_tank_psig)
        critical ==
            critical_sizing_method(p.sys_vol, p.init_temp, p.max_temp,
                                   p.min_tank_psig, p.max_tank_psig, lookups)
        both == <<"ASHRAE_sizing_method", "critical_sizing_method">>
                    \o critical.calls
    IN  IF IsRaise(ashrae_volume)
        THEN [results_text |-> shown,
              invocation |-> Invocation("raise", <<"ASHRAE_sizing_method">>,
                                        ashrae_volume, None)]
        ELSE IF IsRaise(critical.ret)
        THEN [results_text |-> shown,
              invocation |-> Invocation("raise", both, ashrae_volume,
                                        critical.ret)]
        ELSE [results_text |-> ResultsText(ashrae_volume, critical.ret),
              invocation |-> Invocation("set", both, ashrae_volume,
                                        critical.ret)]

\* One run of the handler on the form f while the label shows `shown`:
\* the text the label shows afterwards and the record of the run.
\*   "showerror"  a field raised ValueError: the message box, then return;
\*   "raise"      an exception left the handler (Tk reports it and goes on);
\*   "set"        results_text.set was executed.
calculate_tank_volumes(f, shown, lookups) ==
    LET p == ReadFields(f)
    IN  IF ValueErrorRaised(p) THEN OnValueError(shown)
        ELSE RunMethods(p, shown, lookups)

(***************************************************************************)
(* The form.                                                               *)
(***************************************************************************)
\* Keys typed into the system-volume entry.
EntryKeys == {"4", ".", "x"}

\* Options the user picks in the comboboxes.
MinPressureChoices == {30, 80}

MaxPressureChoices == {27, 30, 110}

AvgTempChoices == {160, 280}

InitTempChoices == {70}

MaxTempChoices == {230}

EmptyForm ==
    [shared_sys_vol_entry |-> <<>>,
     shared_min_pressure_var |-> <<>>,
     shared_max_pressure_var |-> <<>>,
     ashrae_avg_temp_var |-> <<>>,
     critical_init_temp_var |-> <<>>,
     critical_max_temp_var |-> <<>>]

NoCall == [fn |-> "none", args |-> <<>>, lookups |-> <<>>, ret |-> None,
           calls |-> <<>>, done |-> FALSE]

Init ==
    /\ form = EmptyForm
    /\ results_text = <<>>
    /\ invocation = NoInvocation
    /\ call = NoCall

Edit(field, text) ==
    /\ form' = [form EXCEPT ![field] = text]
    /\ invocation' = NoInvocation
    /\ UNCHANGED <<results_text, call>>

TypeKey ==
    \E c \in EntryKeys :
        /\ Len(form.shared_sys_vol_entry) < MaxTextLen
        /\ Edit("shared_sys_vol_entry", Append(form.shared_sys_vol_entry, c))

Backspace ==
    /\ form.shared_sys_vol_entry # <<>>
    /\ Edit("shared_sys_vol_entry",
            SubSeq(form.shared_sys_vol_entry, 1,
                   Len(form.shared_sys_vol_entry) - 1))

SelectMinPressure ==
    \E p \in MinPressureChoices : Edit("shared_min_pressure_var", ToText(p))

SelectMaxPressure ==
    \E p \in MaxPressureChoices : Edit("shared_max_pressure_var", ToText(p))

SelectAvgTemp ==
    \E t \in AvgTempChoices : Edit("ashrae_avg_temp_var", ToText(t))

SelectInitTemp ==
    \E t \in InitTempChoices : Edit("critical_init_temp_var", ToText(t))

SelectMaxTemp ==
    \E t \in MaxTempChoices : Edit("critical_max_temp_var", ToText(t))

\* The Calculate button runs the handler to completion.
Calculate ==
    \E lookups \in Lookups(ParseInt(form.critical_init_temp_var),
                           ParseInt(form.critical_max_temp_var),
                           ParseInt(form.shared_min_pressure_var),
                           ParseInt(form.shared_max_pressure_var)) :
        LET run == calculate_tank_volumes(form, results_text, lookups)
        IN  /\ results_text' = run.results_text
            /\ invocation' = run.invocation
            /\ UNCHANGED <<form, call>>

Next ==
    \/ TypeKey
    \/ Backspace
    \/ SelectMinPressure
    \/ SelectMaxPressure
    \/ SelectAvgTemp
    \/ SelectInitTemp
    \/ SelectMaxTemp
    \/ Calculate

Spec == Init /\ [][Next]_vars

(***************************************************************************)
(* The formulas on their own: one call of a formula with the arguments the *)
(* handler can pass it (a parsed system volume, options of the comboboxes).*)
(***************************************************************************)
\* Values of float(shared_sys_vol_entry.get()).
SysVolSamples ==
    {FloatVal(0, 1), FloatVal(1, 1), FloatVal(5, 2), FloatVal(100, 1),
     FloatVal(4400, 1), FloatVal(-3, 1)}

Args(avg_operating_temp, sys_vol, init_temp, max_temp, min_tank_psig, max_tank_psig) ==
    [avg_operating_temp |-> avg_operating_temp, sys_vol |-> sys_vol,
     init_temp |-> init_temp, max_temp |-> max_temp,
     min_tank_psig |-> min_tank_psig, max_tank_psig |-> max_tank_psig]

Pending(fn, args) ==
    [fn |-> fn, args |-> args, lookups |-> <<>>, ret |-> None,
     calls |-> <<>>, done |-> FALSE]

InitASHRAE ==
    /\ form = EmptyForm
    /\ results_text = <<>>
    /\ invocation = NoInvocation
    /\ \E t \in avg_temp_options, v \in SysVolSamples,
          pmin \in shared_pressure_options, pmax \in max_pressure_options :
          call = Pending("ASHRAE_sizing_method",
                         Args(IntVal(t), v, None, None, IntVal(pmin), IntVal(pmax)))

CallASHRAE ==
    /\ call.fn = "ASHRAE_sizing_method"
    /\ ~call.done
    /\ call' = [call EXCEPT
                  !.ret = ASHRAE_sizing_method(call.args.avg_operating_temp,
                                               call.args.sys_vol,
                                               call.args.min_tank_psig,
                                               call.args.max_tank_psig),
                  !.calls = <<"ASHRAE_sizing_method">>,
                  !.done = TRUE]
    /\ UNCHANGED <<form, results_text, invocation>>

NextASHRAE == CallASHRAE

SpecASHRAE == InitASHRAE /\ [][NextASHRAE]_vars

InitCritical ==
    /\ form = EmptyForm
    /\ results_text = <<>>
    /\ invocation = NoInvocation
    /\ \E v \in SysVolSamples, t0 \in init_temp_options, t1 \in max_temp_options,
          pmin \in shared_pressure_options, pmax \in max_pressure_options :
          call = Pending("critical_sizing_method",
                         Args(None, v, IntVal(t0), IntVal(t1), IntVal(pmin), IntVal(pmax)))

CallCritical ==
    /\ call.fn = "critical_sizing_method"
    /\ ~call.done
    /\ \E lookups \in Lookups(call.args.init_temp, call.args.max_temp,
                              call.args.min_tank_psig, call.args.max_tank_psig) :
          LET run == critical_sizing_method(call.args.sys_vol,
                                            call.args.init_temp,
                                            call.args.max_temp,
                                            call.args.min_tank_psig,
                                            call.args.max_tank_psig, lookups)
          IN  call' = [call EXCEPT
                         !.lookups = lookups,
                         !.ret = run.ret,
                         !.calls = <<"critical_sizing_method">> \o run.calls,
                         !.done = TRUE]
    /\ UNCHANGED <<form, results_text, invocation>>

NextCritical == CallCritical

SpecCritical == InitCritical /\ [][NextCritical]_vars

(***************************************************************************)
(* Properties.                                                             *)
(***************************************************************************)
\* The handler has just run on the current form.
Pressed == invocation.outcome # "none"

\* The values of the six widgets, converted.
sys_vol == ParseFloat(form.shared_sys_vol_entry)

min_tank_psig == ParseInt(form.shared_min_pressure_var)

max_tank_psig == ParseInt(form.shared_max_pressure_var)

avg_operating_temp == ParseInt(form.ashrae_avg_temp_var)

init_temp == ParseInt(form.critical_init_temp_var)

max_temp == ParseInt(form.critical_max_temp_var)

AllFieldsParse ==
    /\ IsNumber(sys_vol)
    /\ IsNumber(min_tank_psig)
    /\ IsNumber(max_tank_psig)
    /\ IsNumber(avg_operating_temp)
    /\ IsNumber(init_temp)
    /\ IsNumber(max_temp)

HasLine(label, value, suffix) ==
    \E i \in 1..Len(results_text) : results_text[i] = Line(label, value, suffix)

\* (0.00041*T - 0.0466) * V * (Pmax + 14.7) / (Pmax - Pmin), for Pmax # Pmin,
\* from the integers 41*T - 4660, 10*Pmax + 147 and 10*(Pmax - Pmin).
ClosedForm(t, v, pmin, pmax) ==
    LET s == IF pmax > pmin THEN 1 ELSE -1
    IN  Mul(Mul(FloatVal(41 * t - 4660, 100000), v),
            FloatVal(s * (10 * pmax + 147), s * 10 * (pmax - pmin)))

ASHRAEDone == call.fn = "ASHRAE_sizing_method" /\ call.done

CriticalDone == call.fn = "critical_sizing_method" /\ call.done

\* C1: when all fields parse and the critical method returns an error string,
\* the results text holds the ASHRAE line (the volume to two decimals) as well
\* as the critical-method error line.
C1_ErrorKeepsASHRAELine ==
    (invocation.outcome = "set" /\ IsStr(invocation.critical_volume))
        => /\ HasLine(AshraeLabel, Format2f(invocation.ashrae_volume), " gallons")
           /\ HasLine(ErrorLabel, <<invocation.critical_volume.s>>, "")

\* C2: a press with any field that does not parse ends in the invalid-input
\* message box and calls neither sizing method.
C2_InvalidInputAborts ==
    (Pressed /\ ~AllFieldsParse)
        => /\ invocation.outcome = "showerror"
           /\ invocation.calls = <<>>

\* C2 happens: the message box after a press on which only the maximum water
\* temperature is unselected.
C2_Witness ==
    /\ invocation.outcome = "showerror"
    /\ form.critical_max_temp_var = <<>>
    /\ IsNumber(sys_vol) /\ IsNumber(min_tank_psig) /\ IsNumber(max_tank_psig)
    /\ IsNumber(avg_operating_temp) /\ IsNumber(init_temp)

C4_ASHRAEAlwaysReturns ==
    ASHRAEDone => IsFloat(call.ret)

\* C5: a press on which all fields parse calls both sizing methods and
\* overwrites the results text with the outcomes of this press.
C5_BothRunAndOverwrite ==
    (Pressed /\ AllFieldsParse)
        => /\ invocation.outcome = "set"
           /\ \E i \in 1..Len(invocation.calls) :
                  invocation.calls[i] = "ASHRAE_sizing_method"
           /\ \E i \in 1..Len(invocation.calls) :
                  invocation.calls[i] = "critical_sizing_method"
           /\ results_text = ResultsText(invocation.ashrae_volume,
                                         invocation.critical_volume)

\* C6: for Pmax # Pmin the result of ASHRAE_sizing_method is the number
\* (0.00041*T - 0.0466) * V * (Pmax + 14.7) / (Pmax - Pmin).
C6_ASHRAEFormula ==
    (ASHRAEDone /\ call.args.max_tank_psig # call.args.min_tank_psig)
        => /\ IsFloat(call.ret)
           /\ call.ret = ClosedForm(call.args.avg_operating_temp.n,
                                    call.args.sys_vol,
                                    call.args.min_tank_psig.n,
                                    call.args.max_tank_psig.n)

\* C6 happens: the reference case T = 230, V = 4400, Pmin = 50, Pmax = 110
\* gives 436.2006.
C6_Witness ==
    /\ ASHRAEDone
    /\ call.args.avg_operating_temp = IntVal(230)
    /\ call.args.sys_vol = FloatVal(4400, 1)
    /\ call.args.min_tank_psig = IntVal(50)
    /\ call.args.max_tank_psig = IntVal(110)
    /\ call.ret = FloatVal(4362006, 10000)

\* C7: for a positive system volume and Pmin < Pmax, the result at any larger
\* maximum pressure is less than or equal to the result at Pmax.
C7_MonotoneInMaxPressure ==
    (/\ ASHRAEDone
     /\ call.args.sys_vol.n > 0
     /\ call.args.min_tank_psig.n < call.args.max_tank_psig.n)
        => \A p2 \in max_pressure_options :
               p2 > call.args.max_tank_psig.n
                   => LessEq(ASHRAE_sizing_method(call.args.avg_operating_temp,
                                                  call.args.sys_vol,
                                                  call.args.min_tank_psig,
                                                  IntVal(p2)),
                             call.ret)

\* C7 happens: a call with Pmin < Pmax and a positive volume whose result is
\* strictly above the result at a larger maximum pressure.
C7_Witness ==
    /\ ASHRAEDone
    /\ call.args.sys_vol.n > 0
    /\ call.args.min_tank_psig.n < call.args.max_tank_psig.n
    /\ \E p2 \in max_pressure_options :
           /\ p2 > call.args.max_tank_psig.n
           /\ Less(ASHRAE_sizing_method(call.args.avg_operating_temp,
                                        call.args.sys_vol,
                                        call.args.min_tank_psig, IntVal(p2)),
                   call.ret)

\* C8: the temperature lookup comes first; when it fails its string is the
\* result and the pressure lookup is not called; the pressure lookup's string
\* is the result only when the temperature lookup returned a number.
C8_TemperatureErrorFirst ==
    CriticalDone =>
        LET ne == call.lookups.net_expansion
            af == call.lookups.acceptance_factor
        IN  /\ call.calls[2] = "get_net_expansion"
            /\ IsStr(ne) =>
                   /\ call.ret = ne
                   /\ \A i \in 1..Len(call.calls) :
                          call.calls[i] # "get_acceptance_factor"
            /\ (IsStr(af) /\ call.ret = af) => IsNumber(ne)

\* C8 happens: both lookups report out-of-range and the temperature string
\* is returned.
C8_Witness ==
    /\ CriticalDone
    /\ IsStr(call.lookups.net_expansion)
    /\ IsStr(call.lookups.acceptance_factor)
    /\ call.ret = call.lookups.net_expansion
    /\ call.ret # call.lookups.acceptance_factor

\* C9: a press that ends in the invalid-input message box leaves the results
\* text as it was.
C9_InvalidInputKeepsResults ==
    [][invocation'.outcome = "showerror" => results_text' = results_text]_vars

\* C9 happens: the message box has just been shown and the label still holds
\* the two numeric lines of an earlier press.
C9_Witness ==
    /\ invocation.outcome = "showerror"
    /\ Len(results_text) = 2
    /\ results_text[1].label = AshraeLabel

====
